---------------------------- MODULE Spec2Model ----------------------------
(***************************************************************************)
(* Model of the SLSA provenance generator (src/lib/main.go).               *)
(*                                                                         *)
(* Text is modelled as a sequence of one-character strings, so that the    *)
(* parsers below inspect their input character by character, as the Go    *)
(* code and the regular expression do.                                     *)
(***************************************************************************)
EXTENDS Naturals, Sequences, FiniteSets

(***************************************************************************)
(* Characters and the string helpers of Go's strings package.              *)
(***************************************************************************)
LowerSeq == <<"a","b","c","d","e","f","g","h","i","j","k","l","m",
              "n","o","p","q","r","s","t","u","v","w","x","y","z">>
UpperSeq == <<"A","B","C","D","E","F","G","H","I","J","K","L","M",
              "N","O","P","Q","R","S","T","U","V","W","X","Y","Z">>
Lower == {LowerSeq[k] : k \in 1..26}
Upper == {UpperSeq[k] : k \in 1..26}
Digit == {"0","1","2","3","4","5","6","7","8","9"}
AlNum == Lower \cup Upper \cup Digit
\* The control characters the model's inputs can hold.
CTL == {"\n"}

ToLowerChar(c) ==
    IF c \in Upper THEN LowerSeq[CHOOSE k \in 1..26 : UpperSeq[k] = c] ELSE c
ToLower(s) == [k \in 1..Len(s) |-> ToLowerChar(s[k])]

\* strings.Index for a one-character needle: the first position, 0 if none.
Index(s, c) ==
    IF \E k \in 1..Len(s) : s[k] = c
    THEN CHOOSE k \in 1..Len(s) : s[k] = c /\ \A j \in 1..(k-1) : s[j] # c
    ELSE 0
\* strings.LastIndex for a one-character needle.
LastIndex(s, c) ==
    IF \E k \in 1..Len(s) : s[k] = c
    THEN CHOOSE k \in 1..Len(s) : s[k] = c /\ \A j \in (k+1)..Len(s) : s[j] # c
    ELSE 0
Count(s, c) == Cardinality({k \in 1..Len(s) : s[k] = c})
HasPrefix(s, p) == Len(s) >= Len(p) /\ SubSeq(s, 1, Len(p)) = p
HasSuffix(s, p) == Len(s) >= Len(p) /\ SubSeq(s, Len(s) - Len(p) + 1, Len(s)) = p
From(s, k) == SubSeq(s, k, Len(s))
\* strings.Index for a substring needle.
IndexSub(s, sub) ==
    LET hit(k) == SubSeq(s, k, k + Len(sub) - 1) = sub
        cand == {k \in 1..(Len(s) - Len(sub) + 1) : hit(k)}
    IN IF cand = {} THEN 0 ELSE CHOOSE k \in cand : \A j \in cand : k <= j
\* The length of the longest prefix of s made of characters of S.
Run(s, S) ==
    CHOOSE n \in 0..Len(s) :
        /\ \A k \in 1..n : s[k] \in S
        /\ (n = Len(s) \/ s[n+1] \notin S)

(***************************************************************************)
(* URLs: the fields of net/url.URL the program reads or sets.              *)
(***************************************************************************)
NoUser == [set |-> FALSE, username |-> <<>>, password |-> <<>>, passwordSet |-> FALSE]
User(name) == [set |-> TRUE, username |-> name, password |-> <<>>, passwordSet |-> FALSE]
UserPassword(name, pw) ==
    [set |-> TRUE, username |-> name, password |-> pw, passwordSet |-> TRUE]
\* new(url.URL): the zero URL.
ZeroURL == [Scheme |-> <<>>, Opaque |-> <<>>, User |-> NoUser, Host |-> <<>>,
            Path |-> <<>>, ForceQuery |-> FALSE, RawQuery |-> <<>>]
\* A parser's pair of results: the *url.URL (isNil: a nil pointer) and the error.
Ok(u) == [u |-> u, isNil |-> FALSE, err |-> "nil"]
Fail(e) == [u |-> ZeroURL, isNil |-> TRUE, err |-> e]

(***************************************************************************)
(* net/url.Parse, as ParseTransport calls it.  The model is exact for      *)
(* strings over letters, digits, the control character "\n" and the        *)
(* punctuation  @ : / . ? ~ _ - +  ; the inputs hold no '#', '%', '[' or   *)
(* '*', so fragments, percent-escapes and IPv6 literals do not arise.      *)
(***************************************************************************)
\* getScheme: [scheme, rest, err].
getScheme(rawURL) ==
    LET none == [scheme |-> <<>>, rest |-> rawURL, err |-> "nil"]
        n == Run(rawURL, AlNum \cup {"+", "-", "."})
    IN IF rawURL = <<>> THEN none
       ELSE IF rawURL[1] \in Digit \cup {"+", "-", "."} THEN none
       ELSE IF n = Len(rawURL) THEN none
       ELSE IF rawURL[n+1] # ":" THEN none
       ELSE IF n = 0
            THEN [scheme |-> <<>>, rest |-> <<>>, err |-> "missing protocol scheme"]
            ELSE [scheme |-> SubSeq(rawURL, 1, n), rest |-> From(rawURL, n + 2),
                  err |-> "nil"]

\* validOptionalPort: "" or ":" followed by digits only.
validOptionalPort(port) ==
    \/ port = <<>>
    \/ /\ port[1] = ":"
       /\ \A k \in 2..Len(port) : port[k] \in Digit

\* shouldEscape(c, encodeHost): the characters a host may not hold unescaped.
HostOk == AlNum \cup {"+", ":", "-", "_", ".", "~"}
\* parseHost: [host, err].
parseHost(host) ==
    LET i == LastIndex(host, ":")
    IN IF i # 0 /\ ~validOptionalPort(From(host, i))
       THEN [host |-> <<>>, err |-> "invalid port after host"]
       ELSE IF \E k \in 1..Len(host) : host[k] \notin HostOk
       THEN [host |-> <<>>, err |-> "invalid character in host name"]
       ELSE [host |-> host, err |-> "nil"]

\* validUserinfo, over the model's characters.
UserinfoOk == AlNum \cup {"-", ".", "_", ":", "~", "+", "@"}
\* parseAuthority: [user, host, err].
parseAuthority(authority) ==
    LET i == LastIndex(authority, "@")
        h == IF i = 0 THEN parseHost(authority) ELSE parseHost(From(authority, i + 1))
        userinfo == SubSeq(authority, 1, i - 1)
        c == Index(userinfo, ":")
    IN IF h.err # "nil" THEN [user |-> NoUser, host |-> <<>>, err |-> h.err]
       ELSE IF i = 0 THEN [user |-> NoUser, host |-> h.host, err |-> "nil"]
       ELSE IF \E k \in 1..Len(userinfo) : userinfo[k] \notin UserinfoOk
       THEN [user |-> NoUser, host |-> <<>>, err |-> "net/url: invalid userinfo"]
       ELSE IF c = 0
       THEN [user |-> User(userinfo), host |-> h.host, err |-> "nil"]
       ELSE [user |-> UserPassword(SubSeq(userinfo, 1, c - 1), From(userinfo, c + 1)),
             host |-> h.host, err |-> "nil"]

\* url.Parse (parse with viaRequest = false).
URLParse(rawURL) ==
    LET g == getScheme(rawURL)
        scheme == ToLower(g.scheme)
        force == HasSuffix(g.rest, <<"?">>) /\ Count(g.rest, "?") = 1
        q == Index(g.rest, "?")
        rest == IF force THEN SubSeq(g.rest, 1, Len(g.rest) - 1)
                ELSE IF q = 0 THEN g.rest ELSE SubSeq(g.rest, 1, q - 1)
        rawQuery == IF force \/ q = 0 THEN <<>> ELSE From(g.rest, q + 1)
        base == [ZeroURL EXCEPT !.Scheme = scheme, !.ForceQuery = force,
                                !.RawQuery = rawQuery]
        colon == Index(rest, ":")
        slash == Index(rest, "/")
        hasAuthority == (scheme # <<>> \/ ~HasPrefix(rest, <<"/", "/", "/">>))
                        /\ HasPrefix(rest, <<"/", "/">>)
        afterSlashes == From(rest, 3)
        cut == Index(afterSlashes, "/")
        authority == IF cut = 0 THEN afterSlashes ELSE SubSeq(afterSlashes, 1, cut - 1)
        path == IF cut = 0 THEN <<>> ELSE From(afterSlashes, cut)
        a == parseAuthority(authority)
    IN IF \E k \in 1..Len(rawURL) : rawURL[k] \in CTL
       THEN Fail("net/url: invalid control character in URL")
       ELSE IF g.err # "nil" THEN Fail(g.err)
       ELSE IF ~HasPrefix(rest, <<"/">>) /\ scheme # <<>>
       THEN Ok([base EXCEPT !.Opaque = rest])
       ELSE IF ~HasPrefix(rest, <<"/">>) /\ colon > 0 /\ (slash = 0 \/ colon < slash)
       THEN Fail("first path segment in URL cannot contain colon")
       ELSE IF hasAuthority
       THEN IF a.err # "nil" THEN Fail(a.err)
            ELSE Ok([base EXCEPT !.User = a.user, !.Host = a.host, !.Path = path])
       ELSE Ok([base EXCEPT !.Path = rest])

(***************************************************************************)
(* The Repository URL Normalizer.                                          *)
(***************************************************************************)
\* The known Git URL schemes.
Transports ==
    { <<"s","s","h">>, <<"g","i","t">>, <<"g","i","t","+","s","s","h">>,
      <<"h","t","t","p">>, <<"h","t","t","p","s">>, <<"f","t","p">>,
      <<"f","t","p","s">>, <<"r","s","y","n","c">>, <<"f","i","l","e">> }
Valid(transport) == transport \in Transports

\* ParseTransport: url.Parse, then an error unless the scheme is a transport.
\* The URL url.Parse returned is passed on with the error.
ParseTransport(rawurl) ==
    LET r == URLParse(rawurl)
    IN IF r.err = "nil" /\ ~Valid(r.u.Scheme)
       THEN [r EXCEPT !.err = "scheme is not a valid transport"]
       ELSE r

\* The character classes of scpSyntax.
ScpUserChars == AlNum \cup {"-", ".", "_", "~"}
ScpHostChars == AlNum \cup {".", "_", "-"}
ScpPathChars == AlNum \cup {".", "/", "_", "-"}

\* scpSyntax matched from position `from` (1, or after "user@"): the groups
\* m[2], m[3], m[4], or no match.  Each class run is greedy; the character
\* after the host must be ':'; the path needs one character at least; an
\* optional '?' is dropped; '.' in (.*) matches anything but a line break.
scpTail(s, user) ==
    LET h == Run(s, ScpHostChars)
        afterHost == From(s, h + 2)
        p == Run(afterHost, ScpPathChars)
        afterPath == From(afterHost, p + 1)
        query == IF HasPrefix(afterPath, <<"?">>) THEN From(afterPath, 2) ELSE afterPath
    IN IF /\ h >= 1
          /\ h < Len(s)
          /\ s[h+1] = ":"
          /\ p >= 1
          /\ \A k \in 1..Len(query) : query[k] # "\n"
       THEN [matched |-> TRUE, m1 |-> user, m2 |-> SubSeq(s, 1, h),
             m3 |-> SubSeq(afterHost, 1, p), m4 |-> query]
       ELSE [matched |-> FALSE, m1 |-> <<>>, m2 |-> <<>>, m3 |-> <<>>, m4 |-> <<>>]

\* scpSyntax.FindAllStringSubmatch(rawurl, -1): the pattern is anchored at
\* both ends, so there is one match at most.  The optional group "user@" is
\* tried first and given up if the rest does not match with it.
scpSyntax(rawurl) ==
    LET u == Run(rawurl, ScpUserChars)
        withUser == scpTail(From(rawurl, u + 2), SubSeq(rawurl, 1, u + 1))
    IN IF u >= 1 /\ u < Len(rawurl) /\ rawurl[u+1] = "@" /\ withUser.matched
       THEN withUser
       ELSE scpTail(rawurl, <<>>)

\* strings.TrimRight(s, "@").
TrimRightAt(s) ==
    LET keep == CHOOSE n \in 0..Len(s) :
                    /\ (n = 0 \/ s[n] # "@")
                    /\ \A k \in (n+1)..Len(s) : s[k] = "@"
    IN SubSeq(s, 1, keep)

\* ParseScp as it would be if it kept the '@' of the user group and made the
\* path absolute.
ParseScpRaw(rawurl) ==
    LET m == scpSyntax(rawurl)
    IN IF ~m.matched THEN Fail("no scp URL found")
       ELSE Ok([ZeroURL EXCEPT !.Scheme = <<"s","s","h">>,
                               !.User = IF m.m1 # <<>> THEN User(m.m1) ELSE NoUser,
                               !.Host = m.m2,
                               !.Path = <<"/">> \o m.m3,
                               !.RawQuery = m.m4])

ParseScp(rawurl) ==
    LET m == scpSyntax(rawurl)
        user == TrimRightAt(m.m1)
    IN IF ~m.matched THEN Fail("no scp URL found")
       ELSE Ok([ZeroURL EXCEPT !.Scheme = <<"s","s","h">>,
                               !.User = IF user # <<>> THEN User(user) ELSE NoUser,
                               !.Host = m.m2,
                               !.Path = m.m3,
                               !.RawQuery = m.m4])

\* ParseLocal as it would be if it refused what is no path: an empty string
\* or one holding a control character.
ParseLocalStrict(rawurl) ==
    IF rawurl = <<>> \/ \E k \in 1..Len(rawurl) : rawurl[k] \in CTL
    THEN Fail("not a local path")
    ELSE Ok([ZeroURL EXCEPT !.Scheme = <<"f","i","l","e">>, !.Path = rawurl])

ParseLocal(rawurl) ==
    Ok([ZeroURL EXCEPT !.Scheme = <<"f","i","l","e">>, !.Host = <<>>, !.Path = rawurl])

\* The loop as it would be with ParseScp tried before ParseTransport.
ParseScpFirst(rawurl, k) ==
    IF ParseScp(rawurl).err = "nil" THEN ParseScp(rawurl)
    ELSE IF ParseTransport(rawurl).err = "nil" THEN ParseTransport(rawurl)
    ELSE ParseLocal(rawurl)

\* The loop of Parse over parsers[k..3]: the first result without an error,
\* and the "failed to parse" return if every parser gave an error.
RECURSIVE ParseFrom(_, _)
ParseFrom(rawurl, k) ==
    LET r == CASE k = 1 -> ParseTransport(rawurl)
               [] k = 2 -> ParseScp(rawurl)
               [] k = 3 -> ParseLocal(rawurl)
    IN IF k > 3 THEN [u |-> ZeroURL, isNil |-> FALSE, err |-> "failed to parse"]
       ELSE IF r.err = "nil" THEN r
       ELSE ParseFrom(rawurl, k + 1)

Parse(rawurl) == ParseFrom(rawurl, 1)

\* strings.Replace(s, old, "", 1): s without the first occurrence of old.
ReplaceFirst(s, old) ==
    LET k == IndexSub(s, old)
    IN IF k = 0 THEN s ELSE SubSeq(s, 1, k - 1) \o From(s, k + Len(old))

GitPlusHttps == <<"g","i","t","+","h","t","t","p","s",":","/","/">>
DotGit == <<".","g","i","t">>
\* The materials URI main builds from the URL Parse returned.
MaterialsURI(repositoryURL) ==
    GitPlusHttps \o repositoryURL.Host \o <<"/">> \o ReplaceFirst(repositoryURL.Path, DotGit)

(***************************************************************************)
(* The filesystem the Walker reads.  A path is the sequence of its         *)
(* components; an entry is absent, a file or a directory; a file has a     *)
(* content.  An entry's fault says which system call on it fails:          *)
(*   "vanished"    its name is listed by its directory, lstat gives ENOENT *)
(*                 (it was removed after the listing)                      *)
(*   "denied"      lstat gives EACCES                                      *)
(*   "gone"        lstat succeeds, opening it gives ENOENT (it was removed *)
(*                 after lstat, or it is a link to a missing target)       *)
(*   "unreadable"  opening it gives EACCES                                 *)
(*   "ioerr"       reading it gives EIO                                    *)
(***************************************************************************)
F == <<"f.txt">>
D == <<"d">>
DA == <<"d", "a.txt">>
DS == <<"d", "sub">>
DSB == <<"d", "sub", "b.txt">>
AllPaths == {F, D, DA, DS, DSB}
Contents == {"hello", "world"}
Faults == {"vanished", "denied", "gone", "unreadable", "ioerr"}

Absent == [kind |-> "absent", content |-> "", fault |-> "none"]
File(c) == [kind |-> "file", content |-> c, fault |-> "none"]
Dir == [kind |-> "dir", content |-> "", fault |-> "none"]

Parent(p) == SubSeq(p, 1, Len(p) - 1)
IsUnder(dir, p) == Len(p) > Len(dir) /\ SubSeq(p, 1, Len(dir)) = dir

\* os.Lstat: [isDir, err].
Lstat(fsys, p) ==
    IF p \notin AllPaths \/ fsys[p].kind = "absent" \/ fsys[p].fault = "vanished"
    THEN [isDir |-> FALSE, err |-> "ENOENT"]
    ELSE IF fsys[p].fault = "denied" THEN [isDir |-> FALSE, err |-> "EACCES"]
    ELSE [isDir |-> fsys[p].kind = "dir", err |-> "nil"]

\* What opening and reading an entry gives.
ReadErr(fsys, p) ==
    CASE fsys[p].fault = "gone" -> "ENOENT"
      [] fsys[p].fault = "unreadable" -> "EACCES"
      [] fsys[p].fault = "ioerr" -> "EIO"
      [] OTHER -> "nil"

\* ioutil.ReadFile: [contents, err].
ReadFile(fsys, p) ==
    IF ReadErr(fsys, p) # "nil" THEN [contents |-> "", err |-> ReadErr(fsys, p)]
    ELSE [contents |-> fsys[p].content, err |-> "nil"]

\* The byte-wise order of the names of the model, as sort.Strings orders them.
NameOrder == <<"a.txt", "b.txt", "d", "f.txt", "sub">>
Rank(name) == CHOOSE k \in 1..Len(NameOrder) : NameOrder[k] = name
\* sort.Strings, by insertion.
RECURSIVE SortStrings(_)
SortStrings(names) ==
    IF names = <<>> THEN <<>>
    ELSE LET x == names[Len(names)]
             rest == SortStrings(SubSeq(names, 1, Len(names) - 1))
             before(y) == Rank(y) < Rank(x)
             after(y) == ~(Rank(y) < Rank(x))
         IN SelectSeq(rest, before) \o <<x>> \o SelectSeq(rest, after)

\* The names a directory holds, in the order the system returns them: `raw`
\* lists all entry names in that order.
Readdirnames(fsys, p, raw) ==
    LET held(name) == /\ Append(p, name) \in AllPaths
                      /\ fsys[Append(p, name)].kind # "absent"
    IN SelectSeq(raw, held)

\* As readDirNames with the sort left out.
readDirNamesUnsorted(fsys, p, raw) ==
    IF ReadErr(fsys, p) # "nil" THEN [names |-> <<>>, err |-> ReadErr(fsys, p)]
    ELSE [names |-> Readdirnames(fsys, p, raw), err |-> "nil"]

\* filepath.readDirNames: open, Readdirnames(-1), sort.Strings.
readDirNames(fsys, p, raw) ==
    IF ReadErr(fsys, p) # "nil" THEN [names |-> <<>>, err |-> ReadErr(fsys, p)]
    ELSE [names |-> SortStrings(Readdirnames(fsys, p, raw)), err |-> "nil"]

(***************************************************************************)
(* The Artifact Digest Walker.                                             *)
(***************************************************************************)
\* sha256.Sum256 and hex.EncodeToString, on the contents of the model.
Sha256Hex(contents) ==
    CASE contents = "hello" ->
             "2cf24dba5fb0a30e26e83b2ac5b9e29e1b161e5c1fa7425e73043362938b9824"
      [] contents = "world" ->
             "486ea46224d1bb4fb680f34f7c9ad96a8f24ec88be73ea8e5a6c65260e9cb8a7"
      [] contents = "" ->
             "e3b0c44298fc1c149afbf4c8996fb92427ae41e4649b934ca495991b7852b855"

\* filepath.Rel(root, abspath) for an abspath at or under root: the
\* components below root, or "." when the two are the same.
Rel(root, abspath) ==
    IF abspath = root THEN <<".">> ELSE SubSeq(abspath, Len(root) + 1, Len(abspath))
\* filepath.Base.
Base(path) == IF path = <<>> THEN <<".">> ELSE <<path[Len(path)]>>

DigestSet(alg, hex) == [k \in {alg} |-> hex]
Subject(name, digest) == [Name |-> name, Digest |-> digest]

\* The name a Subject gets, without the special case of a root that is a file.
SubjectNameRel(root, abspath) == Rel(root, abspath)

\* The name a Subject gets: the path relative to root, and the base name of
\* root when that is ".".
SubjectName(root, abspath) ==
    LET relpath == Rel(root, abspath)
    IN IF relpath = <<".">> THEN Base(root) ELSE relpath

\* The function subjects() hands to filepath.Walk, called with the error Walk
\* met (if any); s is the slice it appends to.  [s, err].
WalkFn(fsys, root, abspath, isDir, err, s) ==
    LET f == ReadFile(fsys, abspath)
    IN IF err # "nil" THEN [s |-> s, err |-> err]
       ELSE IF isDir THEN [s |-> s, err |-> "nil"]
       ELSE IF f.err # "nil" THEN [s |-> s, err |-> f.err]
       ELSE [s |-> Append(s, Subject(SubjectName(root, abspath),
                                     DigestSet("sha256", Sha256Hex(f.contents)))),
             err |-> "nil"]

\* filepath.walk on an entry lstat succeeded on, and its loop over the names
\* of a directory from the k-th on.  [s, err]; any error ends the walk.
RECURSIVE walk(_, _, _, _, _, _)
RECURSIVE walkNames(_, _, _, _, _, _, _)
walk(fsys, raw, root, path, isDir, s) ==
    LET d == readDirNames(fsys, path, raw)
        r == WalkFn(fsys, root, path, TRUE, d.err, s)
    IN IF ~isDir THEN WalkFn(fsys, root, path, FALSE, "nil", s)
       ELSE IF d.err # "nil" \/ r.err # "nil" THEN r
       ELSE walkNames(fsys, raw, root, path, d.names, 1, s)
walkNames(fsys, raw, root, path, names, k, s) ==
    LET filename == Append(path, names[k])
        st == Lstat(fsys, filename)
        r == IF st.err # "nil"
             THEN WalkFn(fsys, root, filename, FALSE, st.err, s)
             ELSE walk(fsys, raw, root, filename, st.isDir, s)
    IN IF k > Len(names) THEN [s |-> s, err |-> "nil"]
       ELSE IF r.err # "nil" THEN r
       ELSE walkNames(fsys, raw, root, path, names, k + 1, r.s)

\* filepath.Walk.
Walk(fsys, raw, root) ==
    LET st == Lstat(fsys, root)
    IN IF st.err # "nil" THEN WalkFn(fsys, root, root, FALSE, st.err, <<>>)
       ELSE walk(fsys, raw, root, root, st.isDir, <<>>)

\* subjects(root): the Subjects appended during the walk, and the walk's
\* error.  (The gc toolchain calls filepath.Walk before it reads s for the
\* return, so the appended Subjects are what is returned.)
subjects(fsys, raw, root) == Walk(fsys, raw, root)

\* os.IsNotExist.
IsNotExist(err) == err = "ENOENT"

(***************************************************************************)
(* The two context arguments.  A context is JSON text; the model keeps its *)
(* parse tree.  kind is "empty" (the flag is missing or ""), "malformed"   *)
(* (no JSON), "null", "array" or "object"; an object has a sequence of     *)
(* members [key, type, val], type being "string", "number" or "null".      *)
(***************************************************************************)
Member(key, val) == [key |-> key, type |-> "string", val |-> val]
NumberMember(key) == [key |-> key, type |-> "number", val |-> <<>>]
Object(members) == [kind |-> "object", members |-> members]
EmptyText == [kind |-> "empty", members |-> <<>>]
Malformed == [kind |-> "malformed", members |-> <<>>]
Null == [kind |-> "null", members |-> <<>>]

K_repository == <<"r","e","p","o","s","i","t","o","r","y">>
K_build_url == <<"b","u","i","l","d","_","u","r","l">>
K_commit == <<"c","o","m","m","i","t">>
K_Commit == <<"C","o","m","m","i","t">>
K_step_id == <<"s","t","e","p","_","i","d">>
K_command == <<"c","o","m","m","a","n","d">>
K_agent_name == <<"a","g","e","n","t","_","n","a","m","e">>
K_agent_id == <<"a","g","e","n","t","_","i","d">>
K_agent_organization == <<"a","g","e","n","t","_","o","r","g","a","n","i","z","a","t","i","o","n">>

\* The json tags of BuildContext and of AgentContext.
BuildTags == [Repository |-> K_repository, BuildURL |-> K_build_url,
              Commit |-> K_commit, StepID |-> K_step_id, Command |-> K_command]
AgentTags == [Name |-> K_agent_name, ID |-> K_agent_id,
              Organization |-> K_agent_organization]

\* json.Unmarshal of an object's members from the k-th on into the struct
\* value ctx with the json tags `tags`: a key names the field whose tag it
\* equals, letter case ignored; a later member overwrites an earlier one; a
\* null leaves the field alone; a value that is no string is an
\* UnmarshalTypeError, reported after the other members are decoded.
RECURSIVE DecodeMembers(_, _, _, _, _)
DecodeMembers(members, k, tags, ctx, err) ==
    LET m == members[k]
        hit == {f \in DOMAIN tags : ToLower(tags[f]) = ToLower(m.key)}
        f == CHOOSE x \in hit : TRUE
    IN IF k > Len(members) THEN [ctx |-> ctx, err |-> err]
       ELSE IF hit = {} \/ m.type = "null"
       THEN DecodeMembers(members, k + 1, tags, ctx, err)
       ELSE IF m.type # "string"
       THEN DecodeMembers(members, k + 1, tags, ctx,
                          IF err = "nil" THEN "UnmarshalTypeError" ELSE err)
       ELSE DecodeMembers(members, k + 1, tags, [ctx EXCEPT ![f] = m.val], err)

\* json.Unmarshal(text, &ctx): [ctx, err].
Unmarshal(text, tags) ==
    LET zero == [f \in DOMAIN tags |-> <<>>]
    IN CASE text.kind \in {"empty", "malformed"} -> [ctx |-> zero, err |-> "SyntaxError"]
         [] text.kind = "null" -> [ctx |-> zero, err |-> "nil"]
         [] text.kind = "object" -> DecodeMembers(text.members, 1, tags, zero, "nil")
         [] OTHER -> [ctx |-> zero, err |-> "UnmarshalTypeError"]

(***************************************************************************)
(* The Statement Builder.                                                  *)
(***************************************************************************)
TypeId ==
    <<"h","t","t","p","s",":","/","/","b","u","i","l","d","k","i","t","e",
      ".","c","o","m","/","A","t","t","e","s","t","a","t","i","o","n","s",
      "/","B","u","i","l","d","k","i","t","e","B","u","i","l","d","@","v",
      "1">>
StatementType ==
    <<"h","t","t","p","s",":","/","/","i","n","-","t","o","t","o",".","i",
      "o","/","S","t","a","t","e","m","e","n","t","/","v","0",".","1">>
PredicateTypeId ==
    <<"h","t","t","p","s",":","/","/","s","l","s","a",".","d","e","v","/",
      "p","r","o","v","e","n","a","n","c","e","/","v","0",".","1">>
BuilderIdPrefix ==
    <<"h","t","t","p","s",":","/","/","b","u","i","l","d","k","i","t","e",
      ".","c","o","m","/","o","r","g","a","n","i","z","a","t","i","o","n",
      "s","/">>
AgentsInfix ==
    <<"/","a","g","e","n","t","s","/">>

\* Statement{PredicateType: ..., Type: ...}: the other fields zero.
ZeroPredicate ==
    [Builder |-> [Id |-> <<>>],
     Metadata |-> [BuildInvocationId |-> <<>>,
                   Completeness |-> [Arguments |-> FALSE, Environment |-> FALSE,
                                     Materials |-> FALSE],
                   Reproducible |-> FALSE,
                   BuildFinishedOn |-> "unset"],
     Recipe |-> [Type |-> <<>>, DefinedInMaterial |-> 0, EntryPoint |-> <<>>,
                 Arguments |-> "nil", Environment |-> "nil"],
     Materials |-> <<>>]
NewStatement ==
    [Type |-> StatementType, Subject |-> <<>>, PredicateType |-> PredicateTypeId,
     Predicate |-> ZeroPredicate]

\* The append as it would be if a name already listed were not listed again.
AppendSubjectsDedup(allSubjects, new) ==
    LET fresh(x) == \A k \in 1..Len(allSubjects) : allSubjects[k].Name # x.Name
    IN allSubjects \o SelectSeq(new, fresh)

\* allSubjects = append(allSubjects, subjects...)
AppendSubjects(allSubjects, new) == allSubjects \o new

\* stmt.Subject and stmt.Predicate as main sets them once the walks are done;
\* the build's end time is the clock's reading, kept as the token "now".
WithPredicate(stmt, allSubjects) ==
    [stmt EXCEPT
        !.Subject = stmt.Subject \o allSubjects,
        !.Predicate =
            [ZeroPredicate EXCEPT
                !.Metadata.Completeness.Arguments = TRUE,
                !.Metadata.BuildFinishedOn = "now",
                !.Recipe.Type = TypeId]]

Item(uri, digest) == [URI |-> uri, Digest |-> digest]

\* The materials as they would be if a build without a repository got none.
NewMaterialsIfRepository(build, uri) ==
    IF build.Repository = <<>> THEN <<>>
    ELSE <<Item(uri, DigestSet("sha1", build.Commit))>>

\* The materials main appends to stmt.Predicate.Materials.
NewMaterials(build, uri) == <<Item(uri, DigestSet("sha1", build.Commit))>>

\* The fields main fills from the two contexts and the materials URI.
WithContext(stmt, build, agent, uri) ==
    [stmt EXCEPT
        !.Predicate.Metadata.BuildInvocationId = build.BuildURL,
        !.Predicate.Recipe.EntryPoint = build.Command,
        !.Predicate.Materials = stmt.Predicate.Materials \o NewMaterials(build, uri),
        !.Predicate.Builder.Id =
            BuilderIdPrefix \o agent.Organization \o AgentsInfix \o agent.ID]

\* A byte slice holding JSON text, kept as the value the text encodes.
NilBytes == [isNil |-> TRUE, json |-> "none"]
Bytes(t) == [isNil |-> FALSE, json |-> t]

\* encoder.Encode(t) for a Statement: every field encodes, but for
\* Recipe.Arguments, a json.RawMessage ("nil", or bytes that are "valid" or
\* "invalid" JSON), whose MarshalJSON output the encoder refuses when it is
\* not valid JSON; nothing reaches the buffer then.
EscapedMarshal(t) ==
    IF t.Predicate.Recipe.Arguments = "invalid"
    THEN [b |-> NilBytes, err |-> "json: error calling MarshalJSON"]
    ELSE [b |-> Bytes(t), err |-> "nil"]

\* EscapedMarshalIndent: nil and the error when EscapedMarshal fails;
\* json.Indent of text the encoder wrote does not fail.
EscapedMarshalIndent(v) ==
    LET m == EscapedMarshal(v)
    IN IF m.err # "nil" THEN [payload |-> NilBytes, err |-> m.err]
       ELSE [payload |-> m.b, err |-> "nil"]

(***************************************************************************)
(* State.                                                                  *)
(***************************************************************************)
VARIABLES
    \* the environment
    fs,             \* the filesystem: AllPaths -> entry
    \* the arguments of one run of main
    artifactPath,   \* the --artifact_path values, in the order given
    outputPath,     \* the --output_path value
    buildContext,   \* the --build_context text
    agentContext,   \* the --agent_context text
    \* main
    pc,             \* "flags", "walk", "context", "assemble", then the way the
                    \* run ended: "done", "exit1" or "panic"
    walked,         \* the calls of subjects() made, in order: [root, err]
    allSubjects,
    context,        \* AnyContext: the decoded build and agent contexts
    stmt,
    repositoryURL,  \* what Parse returned
    materialsURI,
    stdout,         \* the lines printed
    outFile,        \* the file at --output_path
    writes,         \* how many times the run called WriteFile on it
    \* the Normalizer run on its own
    rawurl,         \* the locator
    npc,            \* "input", "parsed", "rewritten"
    \* the Walker run on its own
    wroot,          \* the root
    wruns           \* the walks made: [raw, result]

mainVars == <<artifactPath, outputPath, buildContext, agentContext, pc, walked, allSubjects,
              context, stmt, stdout, outFile, writes>>
normVars == <<rawurl, npc>>
walkVars == <<wroot, wruns>>
vars == <<fs, mainVars, repositoryURL, materialsURI, normVars, walkVars>>

(***************************************************************************)
(* Inputs.                                                                 *)
(***************************************************************************)
\* The locators the Normalizer is run on: every concatenation of at most
\* MaxParts of these pieces.
MaxParts == 3
Pieces ==
    << <<"g","i","t","@">>,
       <<"g","h",".","i","o",":">>,
       <<":">>,
       <<"o","/","r">>,
       <<".","g","i","t">>,
       <<"h","t","t","p","s",":","/","/">>,
       <<"m","a","i","l","t","o",":","/","/">>,
       <<"s","s","h">>,
       <<"/">>,
       <<"?","q">>,
       <<"2","2">>,
       <<"\n">> >>
RECURSIVE Concats(_)
Concats(n) ==
    IF n = 0 THEN {<<>>}
    ELSE LET prev == Concats(n - 1)
         IN prev \cup {s \o Pieces[k] : s \in prev, k \in 1..Len(Pieces)}
Locators == Concats(MaxParts)

\* Filesystems: every tree over AllPaths in which an entry exists only inside
\* a directory, and each of them with one fault on one existing entry.
Entries == {Absent, Dir} \cup {File(c) : c \in Contents}
Shapes ==
    {f \in [AllPaths -> Entries] :
        \A p \in AllPaths :
            (Len(p) > 1 /\ f[p].kind # "absent") => f[Parent(p)].kind = "dir"}
WithFaults(shapes) ==
    shapes \cup UNION {{[f EXCEPT ![p].fault = x] :
                            p \in {q \in AllPaths : f[q].kind # "absent"},
                            x \in Faults} : f \in shapes}
\* The tree the runs of main read: f.txt (or no f.txt), d/a.txt, d/sub/b.txt.
FullTree ==
    [p \in AllPaths |->
        CASE p = F -> File("hello")
          [] p = D -> Dir
          [] p = DA -> File("hello")
          [] p = DS -> Dir
          [] p = DSB -> File("world")]
MainShapes == {FullTree, [FullTree EXCEPT ![F] = Absent]}
NoFiles == [p \in AllPaths |-> Absent]

\* The orders in which the system may return the names of a directory.
EntryNames == {"a.txt", "b.txt", "sub"}
RawOrders ==
    {o \in [1..Cardinality(EntryNames) -> EntryNames] :
        \A j, k \in DOMAIN o : j # k => o[j] # o[k]}

\* The artifact roots a run is given: at most MaxPaths of RootChoices.
MaxPaths == 2
RootChoices == {F, D, DA}
RECURSIVE SeqsUpTo(_, _)
SeqsUpTo(S, n) ==
    IF n = 0 THEN {<<>>}
    ELSE LET prev == SeqsUpTo(S, n - 1)
         IN prev \cup {Append(q, x) : q \in prev, x \in S}

\* The repository locators of the build contexts.
RepoScp == <<"g","i","t","@","g","h",".","i","o",":","o","/","r",".","g","i","t">>
RepoHttps == <<"h","t","t","p","s",":","/","/","g","h",".","i","o","/","o","/","r",".","g","i","t">>
RepoGithub == <<"g","i","t","@","g","h",".","i","o",":","o","/",".","g","i","t","h","u","b","/","r">>
RepoMailto == <<"m","a","i","l","t","o",":","/","/","a">>
Repositories == {<<>>, RepoScp, RepoHttps, RepoGithub, RepoMailto}

V_commit == <<"a","b","c","1","2","3">>
V_old == <<"o","l","d">>
V_url == <<"b","/","1">>
V_step == <<"s","1">>
V_command == <<"m","a","k","e">>
V_name == <<"a","g">>
V_id == <<"7">>
V_org == <<"a","c","m","e">>

BuildObject(repo) ==
    Object(<<Member(K_build_url, V_url), Member(K_command, V_command),
             Member(K_commit, V_commit), Member(K_step_id, V_step),
             Member(K_repository, repo)>>)
BuildContexts ==
    {BuildObject(r) : r \in Repositories}
    \cup {EmptyText, Malformed, Null,
          \* no repository member
          Object(<<Member(K_commit, V_commit), Member(K_command, V_command)>>),
          \* a commit that is a number
          Object(<<NumberMember(K_commit), Member(K_repository, RepoScp)>>),
          \* the commit given twice, once capitalised
          Object(<<Member(K_commit, V_old), Member(K_Commit, V_commit),
                   Member(K_repository, RepoScp)>>)}
AgentContexts ==
    {EmptyText, Malformed,
     Object(<<Member(K_agent_name, V_name), Member(K_agent_id, V_id),
              Member(K_agent_organization, V_org)>>),
     \* an id that is a number
     Object(<<NumberMember(K_agent_id), Member(K_agent_name, V_name)>>)}

\* --output_path: its default, or the empty text.
DefaultOutputPath == "provenance.json"
OutputPaths == {DefaultOutputPath, ""}

NoResult == [u |-> ZeroURL, isNil |-> TRUE, err |-> "not run"]
ZeroContext == [build |-> [f \in DOMAIN BuildTags |-> <<>>],
                agent |-> [f \in DOMAIN AgentTags |-> <<>>]]

(***************************************************************************)
(* main.                                                                   *)
(***************************************************************************)
NormIdle == rawurl = <<>> /\ npc = "idle"
WalkIdle == wroot = <<>> /\ wruns = <<>>
MainStart ==
    /\ pc = "flags"
    /\ walked = <<>>
    /\ allSubjects = <<>>
    /\ context = ZeroContext
    /\ stmt = NewStatement
    /\ repositoryURL = NoResult
    /\ materialsURI = <<>>
    /\ stdout = <<>>
    /\ outFile = "stale"
    /\ writes = 0

Init ==
    /\ fs \in WithFaults(MainShapes)
    /\ artifactPath \in SeqsUpTo(RootChoices, MaxPaths)
    /\ outputPath \in OutputPaths
    /\ buildContext \in BuildContexts
    /\ agentContext \in AgentContexts
    /\ MainStart
    /\ NormIdle
    /\ WalkIdle

\* parseFlags: a required flag without a value ends the run with status 1.
ParseFlags ==
    /\ pc = "flags"
    /\ IF Len(artifactPath) < 1
       THEN /\ stdout' = Append(stdout, [msg |-> "No value found for required flag",
                                         arg |-> <<"artifact_path">>])
            /\ pc' = "exit1"
       ELSE IF outputPath = ""
       THEN /\ stdout' = Append(stdout, [msg |-> "No value found for required flag",
                                         arg |-> <<"output_path">>])
            /\ pc' = "exit1"
       ELSE IF buildContext.kind = "empty"
       THEN /\ stdout' = Append(stdout, [msg |-> "No value found for required flag",
                                         arg |-> <<"build_context">>])
            /\ pc' = "exit1"
       ELSE IF agentContext.kind = "empty"
       THEN /\ stdout' = Append(stdout, [msg |-> "No value found for required flag",
                                         arg |-> <<"agent_context">>])
            /\ pc' = "exit1"
       ELSE /\ stdout' = stdout
            /\ pc' = "walk"
    /\ UNCHANGED <<fs, artifactPath, outputPath, buildContext, agentContext, walked, allSubjects,
                   context, stmt, repositoryURL, materialsURI, outFile, writes,
                   normVars, walkVars>>

\* The turn of the loop as it would be if a root whose walk failed were
\* skipped and the run went on.
WalkOutcomeSkip(path, r, all, out, last) ==
    [pc |-> IF last THEN "context" ELSE "walk",
     allSubjects |-> IF r.err = "nil" THEN AppendSubjects(all, r.s) ELSE all,
     stdout |-> out]

\* What one turn of the loop over artifactPath does with the result r of
\* subjects(path): [pc, allSubjects, stdout].
WalkOutcome(path, r, all, out, last) ==
    IF IsNotExist(r.err)
    THEN [pc |-> "exit1", allSubjects |-> all,
          stdout |-> Append(out, [msg |-> "Resource path not found", arg |-> path])]
    ELSE IF r.err # "nil"
    THEN [pc |-> "panic", allSubjects |-> all, stdout |-> out]
    ELSE [pc |-> IF last THEN "context" ELSE "walk",
          allSubjects |-> AppendSubjects(all, r.s), stdout |-> out]

\* One turn of the loop: the next root is walked, the system returning
\* directory names in some order.
WalkArtifact ==
    /\ pc = "walk"
    /\ \E raw \in RawOrders :
          LET k == Len(walked) + 1
              path == artifactPath[k]
          IN \E r \in {subjects(fs, raw, path)} :
             \E o \in {WalkOutcome(path, r, allSubjects, stdout, k = Len(artifactPath))} :
             /\ walked' = Append(walked, [root |-> path, err |-> r.err])
             /\ pc' = o.pc
             /\ allSubjects' = o.allSubjects
             /\ stdout' = o.stdout
    /\ UNCHANGED <<fs, artifactPath, outputPath, buildContext, agentContext, context, stmt,
                   repositoryURL, materialsURI, outFile, writes, normVars, walkVars>>

\* After the loop: the subjects and the predicate are set, then the two
\* contexts are decoded; an error of either decoding is a panic.  Unmarshal
\* decodes into the context in place, so what it stored before an error
\* stays there.
DecodeContexts ==
    /\ pc = "context"
    /\ stmt' = WithPredicate(stmt, allSubjects)
    /\ LET b == Unmarshal(buildContext, BuildTags)
           a == Unmarshal(agentContext, AgentTags)
       IN IF b.err # "nil"
          THEN pc' = "panic" /\ context' = [context EXCEPT !.build = b.ctx]
          ELSE IF a.err # "nil"
          THEN pc' = "panic" /\ context' = [build |-> b.ctx, agent |-> a.ctx]
          ELSE pc' = "assemble" /\ context' = [build |-> b.ctx, agent |-> a.ctx]
    /\ UNCHANGED <<fs, artifactPath, outputPath, buildContext, agentContext, walked, allSubjects,
                   repositoryURL, materialsURI, stdout, outFile, writes,
                   normVars, walkVars>>

\* payload, _ := EscapedMarshalIndent(stmt, "", "  "), the error dropped;
\* the payload is printed and written.
\* WriteFile may fail: before the file is opened, which leaves it as it was,
\* or after, which leaves it truncated or partly written.
Emit(full) ==
    \E m \in {EscapedMarshalIndent(full)} :
    \E written \in BOOLEAN :
       IF written
       THEN /\ outFile' = m.payload
            /\ writes' = writes + 1
            /\ stdout' = Append(stdout, [msg |-> "Provenance", arg |-> <<>>])
            /\ pc' = "done"
       ELSE /\ outFile' \in {outFile, "partial"}
            /\ writes' = writes + 1
            /\ stdout' = stdout
                   \o <<[msg |-> "Provenance", arg |-> <<>>],
                        [msg |-> "Failed to write provenance", arg |-> <<>>]>>
            /\ pc' = "exit1"

\* The repository is parsed, the statement completed, printed and written.
Assemble ==
    /\ pc = "assemble"
    /\ \E r \in {Parse(context.build.Repository)} :
       \E uri \in {MaterialsURI(r.u)} :
       \E full \in {WithContext(stmt, context.build, context.agent, uri)} :
          /\ repositoryURL' = r
          /\ IF r.err # "nil"
             THEN /\ pc' = "panic"
                  /\ UNCHANGED <<materialsURI, stmt, stdout, outFile, writes>>
             ELSE /\ materialsURI' = uri
                  /\ stmt' = full
                  /\ Emit(full)
    /\ UNCHANGED <<fs, artifactPath, outputPath, buildContext, agentContext, walked, allSubjects,
                   context, normVars, walkVars>>

Next == ParseFlags \/ WalkArtifact \/ DecodeContexts \/ Assemble
Spec == Init /\ [][Next]_vars

(***************************************************************************)
(* The Normalizer on its own: Parse and the materials URI, as main applies *)
(* them to build.Repository, on every locator of Locators.                 *)
(***************************************************************************)
MainIdle ==
    /\ artifactPath = <<>>
    /\ outputPath = DefaultOutputPath
    /\ buildContext = EmptyText
    /\ agentContext = EmptyText
    /\ pc = "idle"
    /\ walked = <<>>
    /\ allSubjects = <<>>
    /\ context = ZeroContext
    /\ stmt = NewStatement
    /\ stdout = <<>>
    /\ outFile = "stale"
    /\ writes = 0

InitNorm ==
    /\ rawurl \in Locators
    /\ npc = "input"
    /\ repositoryURL = NoResult
    /\ materialsURI = <<>>
    /\ fs = NoFiles
    /\ MainIdle
    /\ WalkIdle

\* repositoryURL, err := Parse(build.Repository)
Normalize ==
    /\ npc = "input"
    /\ repositoryURL' = Parse(rawurl)
    /\ npc' = "parsed"
    /\ UNCHANGED <<fs, mainVars, materialsURI, rawurl, walkVars>>

\* materialsURI := "git+https://" + Host + "/" + strings.Replace(Path, ".git", "", 1),
\* reached when Parse gave no error.
Rewrite ==
    /\ npc = "parsed"
    /\ repositoryURL.err = "nil"
    /\ \E u \in {repositoryURL.u} : materialsURI' = MaterialsURI(u)
    /\ npc' = "rewritten"
    /\ UNCHANGED <<fs, mainVars, repositoryURL, rawurl, walkVars>>

NextNorm == Normalize \/ Rewrite
SpecNorm == InitNorm /\ [][NextNorm]_vars

(***************************************************************************)
(* The Walker on its own: subjects() called twice on one root of one       *)
(* unchanged filesystem, the system free to return the names of a          *)
(* directory in a different order each time.                               *)
(***************************************************************************)
InitWalk ==
    /\ fs \in WithFaults(Shapes)
    /\ wroot \in AllPaths
    /\ wruns = <<>>
    /\ repositoryURL = NoResult
    /\ materialsURI = <<>>
    /\ MainIdle
    /\ NormIdle

FirstWalk ==
    /\ wruns = <<>>
    /\ \E raw \in RawOrders :
          wruns' = <<[raw |-> raw, result |-> subjects(fs, raw, wroot)]>>
    /\ UNCHANGED <<fs, mainVars, repositoryURL, materialsURI, normVars, wroot>>

SecondWalk ==
    /\ Len(wruns) = 1
    /\ \E raw \in RawOrders :
          wruns' = Append(wruns, [raw |-> raw, result |-> subjects(fs, raw, wroot)])
    /\ UNCHANGED <<fs, mainVars, repositoryURL, materialsURI, normVars, wroot>>

NextWalk == FirstWalk \/ SecondWalk
SpecWalk == InitWalk /\ [][NextWalk]_vars

(***************************************************************************)
(* Properties of the Normalizer (checked under SpecNorm).                  *)
(***************************************************************************)
AllIn(s, S) == s # <<>> /\ \A k \in 1..Len(s) : s[k] \in S
SchemeSep == <<":", "/", "/">>

\* C1: Parse is total: whatever the locator (empty, or one url.Parse
\* rejects), Parse returns a URL and a nil error, so its final "failed to
\* parse" return is never taken and main does not panic on its result.
C1_ParseTotal ==
    npc # "input" =>
        /\ repositoryURL.err = "nil"
        /\ ~repositoryURL.isNil

\* C1 witness: Parse has run on a locator that url.Parse rejects and that is
\* no SCP form either, and gave no error.
C1_Witness ==
    /\ npc = "parsed"
    /\ URLParse(rawurl).err # "nil"
    /\ ~scpSyntax(rawurl).matched
    /\ repositoryURL.err = "nil"

\* C2 (as claimed): a locator that holds "://" after a scheme outside the
\* whitelist is refused by ParseTransport, is not matched by ParseScp, and
\* comes back in the local-path form: scheme "file", no host, the raw input
\* as the path.
C2_UnknownSchemeIsLocal ==
    LET sep == IndexSub(rawurl, SchemeSep)
        scheme == SubSeq(rawurl, 1, sep - 1)
    IN (/\ npc # "input"
        /\ sep > 1
        /\ scheme[1] \in Lower \cup Upper
        /\ AllIn(scheme, AlNum \cup {"+", "-", "."})
        /\ ~Valid(ToLower(scheme))) =>
        /\ ParseTransport(rawurl).err # "nil"
        /\ ~scpSyntax(rawurl).matched
        /\ repositoryURL.u.Scheme = <<"f","i","l","e">>
        /\ repositoryURL.u.Host = <<>>
        /\ repositoryURL.u.Path = rawurl

\* C3: an SCP-style locator user@host:path (user, host and path drawn from
\* the pattern's character classes) is refused by ParseTransport and comes
\* back as scheme "ssh", the host between '@' and ':', the path after ':'
\* with no slash added, and the user before '@'.  Without "user@" the
\* userinfo is unset, and the result is the ssh/host/path one whenever
\* ParseTransport refuses the locator.
C3_ScpLocator ==
    npc # "input" =>
        /\ \A a \in 1..Len(rawurl), c \in 1..Len(rawurl) :
              LET U == SubSeq(rawurl, 1, a - 1)
                  H == SubSeq(rawurl, a + 1, c - 1)
                  P == From(rawurl, c + 1)
              IN (/\ a < c
                  /\ rawurl[a] = "@"
                  /\ rawurl[c] = ":"
                  /\ AllIn(U, ScpUserChars)
                  /\ AllIn(H, ScpHostChars)
                  /\ AllIn(P, ScpPathChars)) =>
                     /\ ParseTransport(rawurl).err # "nil"
                     /\ repositoryURL =
                            Ok([ZeroURL EXCEPT !.Scheme = <<"s","s","h">>,
                                               !.User = User(U),
                                               !.Host = H,
                                               !.Path = P])
        /\ \A c \in 1..Len(rawurl) :
              LET H == SubSeq(rawurl, 1, c - 1)
                  P == From(rawurl, c + 1)
              IN (/\ rawurl[c] = ":"
                  /\ AllIn(H, ScpHostChars)
                  /\ AllIn(P, ScpPathChars)) =>
                     /\ ~repositoryURL.u.User.set
                     /\ ParseTransport(rawurl).err # "nil" =>
                            repositoryURL =
                                Ok([ZeroURL EXCEPT !.Scheme = <<"s","s","h">>,
                                                   !.Host = H,
                                                   !.Path = P])

\* C3 witness: Parse has run on git@gh.io:o/r and gave the user "git".
C3_Witness ==
    /\ npc = "parsed"
    /\ rawurl = <<"g","i","t","@","g","h",".","i","o",":","o","/","r">>
    /\ repositoryURL.u.User = User(<<"g","i","t">>)

\* C12: Parse returns the result of the first of ParseTransport, ParseScp,
\* ParseLocal that gives no error: a standard URL with a whitelisted scheme
\* comes back with its own scheme, host and path even when the SCP pattern
\* matches it too, ParseScp's result comes back only when ParseTransport
\* failed, and ParseLocal's only when both failed.
C12_FirstParserWins ==
    npc # "input" =>
        LET t == ParseTransport(rawurl)
            sc == ParseScp(rawurl)
            std == URLParse(rawurl)
        IN /\ t.err = "nil" => repositoryURL = t
           /\ (t.err # "nil" /\ sc.err = "nil") => repositoryURL = sc
           /\ (t.err # "nil" /\ sc.err # "nil") => repositoryURL = ParseLocal(rawurl)
           /\ (std.err = "nil" /\ std.u.Scheme \in Transports) =>
                  /\ repositoryURL.u.Scheme = std.u.Scheme
                  /\ repositoryURL.u.Host = std.u.Host
                  /\ repositoryURL.u.Path = std.u.Path
           /\ repositoryURL = sc => t.err # "nil"
           /\ repositoryURL = ParseLocal(rawurl) => (t.err # "nil" /\ sc.err # "nil")

\* C12 witness: Parse has run on ssh:o/r, a standard URL with a whitelisted
\* scheme that the SCP pattern matches too, and gave the URL's own scheme
\* and not ParseScp's result.
C12_Witness ==
    /\ npc = "parsed"
    /\ rawurl = <<"s","s","h",":","o","/","r">>
    /\ ParseTransport(rawurl).err = "nil"
    /\ ParseScp(rawurl).err = "nil"
    /\ repositoryURL = ParseTransport(rawurl)
    /\ repositoryURL # ParseScp(rawurl)

(***************************************************************************)
(* Properties of the statement main writes (checked under Spec).           *)
(***************************************************************************)
TrimSuffix(s, suffix) ==
    IF HasSuffix(s, suffix) THEN SubSeq(s, 1, Len(s) - Len(suffix)) ELSE s

\* C4 (as claimed): the uri of the Material written is "git+https://", the
\* host, "/", and the path with a trailing ".git" removed and nothing else
\* changed, host and path being those Parse returns for the repository.
C4_TrailingGitRemoved ==
    pc = "done" =>
        LET u == Parse(context.build.Repository).u
        IN /\ Len(outFile.json.Predicate.Materials) >= 1
           /\ outFile.json.Predicate.Materials[1].URI =
                  GitPlusHttps \o u.Host \o <<"/">> \o TrimSuffix(u.Path, DotGit)

\* C5: a statement that is written has exactly one material, whatever the
\* artifact paths and the repository, and its digest is the one-key map
\* sha1 -> the commit of the decoded build context.
C5_OneMaterial ==
    pc = "done" =>
        /\ Len(outFile.json.Predicate.Materials) = 1
        /\ outFile.json.Predicate.Materials[1].Digest = [k \in {"sha1"} |-> context.build.Commit]
        /\ context.build = Unmarshal(buildContext, BuildTags).ctx

\* C5 witness: a statement is written for two artifact paths and a build
\* context without a repository, and holds one material with the commit.
C5_Witness ==
    /\ pc = "done"
    /\ Len(artifactPath) = 2
    /\ context.build.Repository = <<>>
    /\ Len(outFile.json.Predicate.Materials) = 1
    /\ outFile.json.Predicate.Materials[1].Digest["sha1"] = V_commit

\* The Subjects of the roots artifactPath[k..], one walk after the other.
RECURSIVE SubjectsFrom(_, _)
SubjectsFrom(k, raw) ==
    IF k > Len(artifactPath) THEN <<>>
    ELSE subjects(fs, raw, artifactPath[k]).s \o SubjectsFrom(k + 1, raw)

\* C6: the subject list written is the Subjects subjects() returns for each
\* artifact path, concatenated in the order the paths were given, nothing
\* removed, merged or reordered.
C6_SubjectsConcatenated ==
    pc = "done" => \A raw \in RawOrders : outFile.json.Subject = SubjectsFrom(1, raw)

\* C6 witness: a statement is written for two overlapping roots, and two of
\* its subjects have the same name.
C6_Witness ==
    /\ pc = "done"
    /\ Len(artifactPath) = 2
    /\ \E j, k \in 1..Len(outFile.json.Subject) :
          j < k /\ outFile.json.Subject[j].Name = outFile.json.Subject[k].Name

\* C9 (as claimed): "Resource path not found" is printed only for a root
\* that does not exist (it is absent, or is removed as the walk reaches it),
\* and a failed walk of a root that exists is a panic.
C9_NotFoundOnlyForMissingRoot ==
    /\ \A k \in 1..Len(stdout) :
          stdout[k].msg = "Resource path not found" =>
              \/ fs[stdout[k].arg].kind = "absent"
              \/ fs[stdout[k].arg].fault \in {"vanished", "gone"}
    /\ \A k \in 1..Len(walked) :
          (pc = "panic" /\ walked[k].err # "nil") => fs[walked[k].root].kind # "absent"

ContextFails ==
    \/ Unmarshal(buildContext, BuildTags).err # "nil"
    \/ Unmarshal(agentContext, AgentTags).err # "nil"

\* C10: the output file is written once at most, and only after every
\* artifact path was walked without error and both contexts were decoded;
\* a failed walk or a context that does not decode ends the run there: no
\* later path is walked and the file is left as it was.
C10_NoPartialOutput ==
    /\ writes <= 1
    /\ writes = 0 => outFile = "stale"
    /\ writes = 1 =>
          /\ Len(walked) = Len(artifactPath)
          /\ \A k \in 1..Len(walked) : walked[k].err = "nil"
          /\ ~ContextFails
    /\ \A k \in 1..Len(walked) :
          /\ walked[k].root = artifactPath[k]
          /\ walked[k].err # "nil" => (k = Len(walked) /\ pc \in {"exit1", "panic"})
    /\ pc \in {"assemble", "done"} => ~ContextFails
    /\ pc = "panic" => writes = 0

\* C10 witness: the walk of the first of two roots failed, the run ended in a
\* panic with the second root never walked and the file untouched.
C10_Witness ==
    /\ pc = "panic"
    /\ Len(artifactPath) = 2
    /\ Len(walked) = 1
    /\ walked[1].err \notin {"nil", "ENOENT"}
    /\ outFile = "stale"

(***************************************************************************)
(* Properties of the Walker (checked under SpecWalk).                      *)
(***************************************************************************)
\* C7: for a root that is a single file, a walk that succeeds returns one
\* Subject, named by the base name of the root; and no Subject of any walk
\* has the name "" or ".".
C7_FileRoot ==
    \A k \in 1..Len(wruns) :
        LET r == wruns[k].result
        IN /\ (fs[wroot].kind = "file" /\ r.err = "nil") =>
                  /\ Len(r.s) = 1
                  /\ r.s[1].Name = <<wroot[Len(wroot)]>>
           /\ \A j \in 1..Len(r.s) : r.s[j].Name \notin {<<>>, <<".">>}

\* C7 witness: the file d/a.txt was walked as a root and gave one Subject.
C7_Witness ==
    /\ Len(wruns) >= 1
    /\ wroot = DA
    /\ fs[DA].kind = "file"
    /\ wruns[1].result.err = "nil"
    /\ Len(wruns[1].result.s) = 1

\* The files under a directory.
FilesUnder(root) == {p \in AllPaths : IsUnder(root, p) /\ fs[p].kind = "file"}

\* C8: for a root that is a directory, a walk that succeeds returns one
\* Subject for each file under the root and none for a directory, named by
\* the file's path relative to the root, with the digest sha256 -> the hash
\* of the file's content; and two walks of the unchanged tree return the
\* same Subjects in the same order, whatever order the system lists
\* directories in.
C8_DirectoryRoot ==
    /\ \A k \in 1..Len(wruns) :
          LET r == wruns[k].result
          IN (fs[wroot].kind = "dir" /\ r.err = "nil") =>
                /\ Len(r.s) = Cardinality(FilesUnder(wroot))
                /\ \A p \in FilesUnder(wroot) :
                      \E j \in 1..Len(r.s) :
                          /\ r.s[j].Name = SubSeq(p, Len(wroot) + 1, Len(p))
                          /\ r.s[j].Digest = [a \in {"sha256"} |-> Sha256Hex(fs[p].content)]
    /\ (Len(wruns) = 2 /\ fs[wroot].kind = "dir") =>
          wruns[1].result = wruns[2].result

\* C8 witness: the directory d was walked twice, the system listing its
\* names in two different orders, and both walks gave a.txt, then sub/b.txt.
C8_Witness ==
    /\ Len(wruns) = 2
    /\ wroot = D
    /\ wruns[1].raw # wruns[2].raw
    /\ wruns[1].raw[1] = "sub"
    /\ wruns[1].result.err = "nil"
    /\ Len(wruns[2].result.s) = 2
    /\ wruns[2].result.s[1].Name = <<"a.txt">>
    /\ wruns[2].result.s[2].Name = <<"sub", "b.txt">>

(***************************************************************************)
(* The serialization in main (checked under Spec).                         *)
(***************************************************************************)
\* EscapedMarshalIndent returns no error for any statement main builds:
\* main leaves Recipe.Arguments nil and every other field encodes.  The
\* case of C11, a serialization that fails, is therefore in no run.
MarshalNeverFails == EscapedMarshalIndent(stmt).err = "nil"

====
